---- MODULE Spec2Model ----
(***************************************************************************)
(* A model of the SFTP upload/download tool (src/sftp_tool.py).            *)
(*                                                                         *)
(* Remote paths are strings, modelled as sequences of one-character        *)
(* strings, so that posixpath.dirname, posixpath.join and _join_remote are *)
(* computed character by character as the library computes them.  Local    *)
(* paths are absolute and resolved (os.path.abspath, Path.resolve), and    *)
(* are modelled as sequences of names; a name is a string without a        *)
(* separator character.  A file system is a record of its directories and  *)
(* of its files with their data.                                           *)
(***************************************************************************)
EXTENDS Integers, Sequences, FiniteSets, TLC

(* ------------------------------ bounds -------------------------------- *)

\* Entries (files and directories) of the source tree of a transfer.
MaxNodes == 3
\* Entries of the tree that already exists on the destination side.
MaxOther == 1

(* ------------------------------ strings ------------------------------- *)

SLASH == "/"
BACKSLASH == "\\"

nA == <<"a">>
nB == <<"b">>
nS == <<"s">>
nR == <<"r">>
nO == <<"o">>
nT == <<"t">>
nH == <<"h">>

FileNames == {nA, nB}
DirNames == {nS}

RECURSIVE Reverse(_)
Reverse(s) == IF s = <<>> THEN <<>> ELSE Append(Reverse(Tail(s)), Head(s))

RECURSIVE Flatten(_)
Flatten(ss) == IF ss = <<>> THEN <<>> ELSE Head(ss) \o Flatten(Tail(ss))

\* str.rfind("/") + 1: the 1-based index of the last slash, 0 when none.
RFindSlash(p) ==
  LET idx == {i \in 1..Len(p) : p[i] = SLASH}
  IN IF idx = {} THEN 0 ELSE CHOOSE i \in idx : \A j \in idx : j <= i

RECURSIVE RStripSlash(_)
RStripSlash(p) ==
  IF p # <<>> /\ p[Len(p)] = SLASH THEN RStripSlash(SubSeq(p, 1, Len(p) - 1)) ELSE p

\* posixpath.dirname
posixpath_dirname(p) ==
  LET head == SubSeq(p, 1, RFindSlash(p))
  IN IF head # <<>> /\ (\E i \in 1..Len(head) : head[i] # SLASH)
     THEN RStripSlash(head)
     ELSE head

\* One step of posixpath.join's loop: path joined with the next part b.
posixpath_join2(path, b) ==
  IF b # <<>> /\ b[1] = SLASH THEN b
  ELSE IF path = <<>> \/ path[Len(path)] = SLASH THEN path \o b
  ELSE path \o <<SLASH>> \o b

RECURSIVE posixpath_joinfrom(_, _)
posixpath_joinfrom(path, rest) ==
  IF rest = <<>> THEN path
  ELSE posixpath_joinfrom(posixpath_join2(path, Head(rest)), Tail(rest))

\* posixpath.join(a, *p)
posixpath_join(parts) == posixpath_joinfrom(Head(parts), Tail(parts))

\* str.replace("\\", "/")
ReplaceBackslash(s) == [i \in 1..Len(s) |-> IF s[i] = BACKSLASH THEN SLASH ELSE s[i]]

\* None, where a string is expected.
None == <<"None">>

\* Variant of _join_remote: the empty parts are not left out.
_join_remote_unfiltered(parts) ==
  IF parts = <<>> THEN <<>> ELSE ReplaceBackslash(posixpath_join(parts))

\* _join_remote(*parts)
_join_remote(parts) ==
  LET cleaned == SelectSeq(parts, LAMBDA part : part \notin {None, <<>>})
  IN IF cleaned = <<>> THEN <<>> ELSE ReplaceBackslash(posixpath_join(cleaned))

\* os.path.relpath(root, local_dir) for root inside local_dir, followed by the
\* replacement of "." by "": the names below local_dir joined by os.sep.
RECURSIVE JoinNames(_)
JoinNames(names) ==
  IF names = <<>> THEN <<>>
  ELSE IF Len(names) = 1 THEN Head(names)
  ELSE Head(names) \o <<SLASH>> \o JoinNames(Tail(names))

rel_root(root, local_dir) == JoinNames(SubSeq(root, Len(local_dir) + 1, Len(root)))

(* ---------------------------- file systems ---------------------------- *)

Parent(p) == SubSeq(p, 1, Len(p) - 1)
IsPrefix(p, q) == Len(p) <= Len(q) /\ SubSeq(q, 1, Len(p)) = p

IsDir(fs, p) == p \in fs.dirs
IsFile(fs, p) == p \in DOMAIN fs.files
Exists(fs, p) == IsDir(fs, p) \/ IsFile(fs, p)

\* The entries of directory p, as records {name, isdir}.
Children(fs, p) ==
  {[name |-> q[Len(q)], isdir |-> IsDir(fs, q)] :
      q \in {x \in fs.dirs \cup DOMAIN fs.files : Len(x) = Len(p) + 1 /\ Parent(x) = p}}

\* All orders in which a listing may return the set S.
RECURSIVE Orders(_)
Orders(S) ==
  IF S = {} THEN {<<>>}
  ELSE UNION {{<<x>> \o s : s \in Orders(S \ {x})} : x \in S}

WithDir(fs, p) == [fs EXCEPT !.dirs = @ \cup {p}]
WithFile(fs, p, data) ==
  [fs EXCEPT !.files = [q \in DOMAIN @ \cup {p} |-> IF q = p THEN data ELSE @[q]]]

\* Data of a file whose transfer broke off.
Truncated == <<"cut", <<>>>>

(* A tree is a set of nodes {p, isdir}, p relative to the tree's root. *)
TreeDirs(T) == {<<>>} \cup {n.p : n \in {m \in T : m.isdir}}

Grow(T) ==
  {T \cup {[p |-> Append(d, nm), isdir |-> FALSE]} : d \in TreeDirs(T), nm \in FileNames}
  \cup {T \cup {[p |-> Append(d, nm), isdir |-> TRUE]} : d \in TreeDirs(T), nm \in DirNames}

RECURSIVE Trees(_)
Trees(n) ==
  IF n = 0 THEN {{}}
  ELSE LET prev == Trees(n - 1) IN prev \cup UNION {Grow(T) : T \in prev}

RECURSIVE Prefixes(_)
Prefixes(p) == IF p = <<>> THEN {<<>>} ELSE {p} \cup Prefixes(Parent(p))

\* The file system that holds the directories `base` and tree T at `at`;
\* each file's data names the side and the place it comes from.
Plant(base, T, at, side) ==
  [dirs  |-> UNION {Prefixes(b) : b \in base} \cup {at \o n.p : n \in {m \in T : m.isdir}}
                \cup Prefixes(at),
   files |-> [q \in {at \o n.p : n \in {m \in T : ~m.isdir}} |-> <<side, q>>]]

Bare(base) == Plant(base, {}, <<>>, "none")

(* --------------------------- the remote server ------------------------ *)

\* The directory relative remote paths are resolved against.
HomeDir == <<nH>>

RECURSIVE SplitFrom(_, _, _)
SplitFrom(p, cur, acc) ==
  IF p = <<>> THEN (IF cur = <<>> THEN acc ELSE Append(acc, cur))
  ELSE IF Head(p) = SLASH
       THEN SplitFrom(Tail(p), <<>>, IF cur = <<>> THEN acc ELSE Append(acc, cur))
       ELSE SplitFrom(Tail(p), Append(cur, Head(p)), acc)

\* The node a remote path string names: its names, below the root for an
\* absolute path and below the home directory otherwise.
Resolve(p) ==
  (IF p # <<>> /\ p[1] = SLASH THEN <<>> ELSE HomeDir) \o SplitFrom(p, <<>>, <<>>)

\* sftp.stat(path) without a session failure: what the server answers.
StatAnswer(fs, p) ==
  IF p = <<>> THEN "notfound"
  ELSE IF IsDir(fs, Resolve(p)) THEN "dir"
  ELSE IF IsFile(fs, Resolve(p)) THEN "file"
  ELSE "notfound"

\* sftp.mkdir(path) creates one level: the parent must be a directory and the
\* path itself must not exist.
MkdirAllowed(fs, p) ==
  /\ p # <<>>
  /\ ~Exists(fs, Resolve(p))
  /\ IsDir(fs, Parent(Resolve(p)))

\* sftp.put(local, path) writes a file into an existing directory.
PutAllowed(fs, p) ==
  /\ p # <<>>
  /\ Resolve(p) # <<>>
  /\ ~IsDir(fs, Resolve(p))
  /\ IsDir(fs, Parent(Resolve(p)))

(* --------------------------- the local side --------------------------- *)

\* Path.mkdir(parents=True, exist_ok=True) succeeds unless the path or one of
\* its ancestors is a file.
LocalMkdirAllowed(fs, p) == \A q \in Prefixes(p) : ~IsFile(fs, q)

LocalMkdirAll(fs, p) == [fs EXCEPT !.dirs = @ \cup Prefixes(p)]

\* open(localpath, "wb"), the first step of sftp.get
LocalOpenAllowed(fs, p) == p # <<>> /\ ~IsDir(fs, p) /\ IsDir(fs, Parent(p))

(* ------------------------------- state -------------------------------- *)

VARIABLES
  action,       \* args.action: "upload" or "download"
  local_path,   \* args.local_path, resolved
  remote_path,  \* args.remote_path
  lfs,          \* the local file system
  rfs,          \* the remote file system
  _ssh,         \* SFTPClient._ssh: "None", "created" or "connected"
  _sftp,        \* SFTPClient._sftp: "None" or "open"
  closes,       \* how often the sftp channel and the ssh transport were closed
  pc,           \* the statement main() is at
  result,       \* "running", "Done", or the failure the invocation ended with
  parts,        \* _ensure_remote_dir: the directories still to visit
  ret,          \* _ensure_remote_dir: the statement its caller continues at
  walk,         \* os.walk: the directories still to visit, next first
  cur,          \* _upload_directory: remote_root, root and the files still to put
  frames,       \* _download_directory: the recursion stack, innermost first
  calls,        \* every primitive called so far, with its outcome
  yielded,      \* what os.walk has yielded so far: (root, files) pairs
  past,         \* the invocations that ended before this one, as Snapshot records
  faults,       \* whether the session and the local disk may fail on their own
  lfs0,         \* the local file system when main() started
  rfs0,         \* the remote file system when main() started
  listed        \* what listdir_attr has returned so far: (remote_dir, entries) pairs

\* _join_remote called on its own (src/sftp_tool.py)
VARIABLES
  jparts,       \* the arguments of the call
  joined        \* <<its return value>>, <<>> before the call

\* quicksort_inplace (src/src/quicksort.py)
VARIABLES
  arr,          \* the list being sorted
  arr0,         \* the list as the caller passed it
  stack,        \* the calls of quicksort_inplace in progress, innermost first
  partitions    \* every call of _partition so far, with the list before and after

\* SnakeGame (src/src/snake.py)
VARIABLES
  snake,          \* self.snake, head first
  direction,      \* self.direction
  next_direction, \* self.next_direction
  game_over,      \* self.game_over
  score,          \* self.score
  food,           \* self.food
  scheduled,      \* whether root.after holds a pending call of _tick
  last            \* <<the handler that ran last and the key it was given>>

joinvars == <<jparts, joined>>
sortvars == <<arr, arr0, stack, partitions>>
snakevars == <<snake, direction, next_direction, game_over, score, food, scheduled, last>>
sftpvars == <<action, local_path, remote_path, lfs, rfs, _ssh, _sftp, closes, pc, result,
              parts, ret, walk, cur, frames, calls, yielded, past, faults,
              lfs0, rfs0, listed>>

vars == <<sftpvars, joinvars, sortvars, snakevars>>

\* The programs of the repository share no state: while one runs, the state
\* of the others is not there.
NoJoin == jparts = <<>> /\ joined = <<>>
NoSort == arr = <<>> /\ arr0 = <<>> /\ stack = <<>> /\ partitions = <<>>
NoSnake ==
  /\ snake = <<>> /\ direction = <<0, 0>> /\ next_direction = <<0, 0>>
  /\ game_over = FALSE /\ score = 0 /\ food = <<0, 0>>
  /\ scheduled = FALSE /\ last = <<>>

\* What no statement of one invocation changes.
args == <<action, local_path, remote_path, lfs0, rfs0, past, faults>>

LocalPaths == {<<nR>>, <<nR, nA>>, <<nO>>}
RemotePaths ==
  {<<"/", "t">>, <<"/", "t", "/", "s">>, <<"/", "t", "/", "a">>, <<"u">>,
   <<"/", "t", "/", "s", "/", "a">>}

NoCur == [remote_root |-> <<>>, root |-> <<>>, files |-> <<>>]

Call(op, path, lpath, res) == [op |-> op, path |-> path, lpath |-> lpath, res |-> res]
Log(op, path, lpath, res) == calls' = Append(calls, Call(op, path, lpath, res))

\* An exception leaves the body of main()'s with statement.
Raise(kind) == pc' = "exit" /\ result' = kind

\* The state main() starts in for one command line and one pair of file systems.
Start(act, lp, rp, l, r) ==
  /\ action = act /\ local_path = lp /\ remote_path = rp
  /\ lfs = l /\ rfs = r /\ lfs0 = l /\ rfs0 = r
  /\ _ssh = "None" /\ _sftp = "None"
  /\ closes = [sftp |-> 0, ssh |-> 0]
  /\ pc = "connect" /\ result = "running"
  /\ parts = <<>> /\ ret = "" /\ walk = <<>> /\ cur = NoCur /\ frames = <<>>
  /\ calls = <<>> /\ yielded = <<>> /\ listed = <<>>

\* main() is not running.
NoSftp ==
  /\ Start("none", <<>>, <<>>, [dirs |-> {}, files |-> <<>>], [dirs |-> {}, files |-> <<>>])
  /\ past = <<>> /\ faults = FALSE

\* The destination side holds nothing at the mount point, or a small tree.
LocalSides(n) == {Bare({})} \cup {Plant({}, U, <<nR>>, "L") : U \in Trees(n)}
RemoteSides(n) == {Bare({HomeDir})} \cup {Plant({HomeDir}, U, <<nT>>, "R") : U \in Trees(n)}

Init ==
  /\ NoJoin /\ NoSort /\ NoSnake
  /\ past = <<>>
  /\ faults = TRUE
  /\ \E lp \in LocalPaths, rp \in RemotePaths :
    \/ \E l \in LocalSides(MaxNodes) \ {Bare({})}, r \in RemoteSides(MaxOther) :
         Start("upload", lp, rp, l, r)
    \/ \E l \in LocalSides(MaxOther), r \in RemoteSides(MaxNodes) \ {Bare({HomeDir})} :
         Start("download", lp, rp, l, r)

(* ----------------------------- the session ---------------------------- *)

\* SFTPClient.__enter__ -> connect()
connect ==
  /\ pc = "connect"
  /\ \/ /\ _ssh' = "connected" /\ _sftp' = "open"
        /\ pc' = "dispatch" /\ UNCHANGED result
     \/ \* self._ssh.connect raises: SystemExit out of __enter__, no __exit__
        /\ faults
        /\ _ssh' = "created" /\ UNCHANGED _sftp
        /\ pc' = "end" /\ result' = "ConnectFailed"
     \/ \* open_sftp raises after the transport is up: no __exit__ either
        /\ faults
        /\ _ssh' = "connected" /\ UNCHANGED _sftp
        /\ pc' = "end" /\ result' = "ConnectFailed"
  /\ UNCHANGED <<args, yielded, lfs, rfs, closes, parts, ret, walk, cur, frames, calls>>
  /\ UNCHANGED <<listed, joinvars, sortvars, snakevars>>

\* SFTPClient.close()
close ==
  /\ _sftp' = "None"
  /\ _ssh' = "None"
  /\ closes' = [sftp |-> closes.sftp + (IF _sftp # "None" THEN 1 ELSE 0),
                ssh  |-> closes.ssh + (IF _ssh # "None" THEN 1 ELSE 0)]

\* Variant of __exit__: close() called at the end of the with body instead of
\* by the context manager, so only when the body returns.
ExitWithoutFinally ==
  /\ pc = "exit"
  /\ IF result = "Done" THEN close ELSE UNCHANGED <<_sftp, _ssh, closes>>
  /\ pc' = "end"
  /\ UNCHANGED <<args, yielded, lfs, rfs, result, parts, ret, walk, cur, frames, calls>>
  /\ UNCHANGED <<listed, joinvars, sortvars, snakevars>>

\* SFTPClient.__exit__: the with statement of main() is left, normally or by
\* an exception.
__exit__ ==
  /\ pc = "exit"
  /\ close
  /\ pc' = "end"
  /\ UNCHANGED <<args, yielded, lfs, rfs, result, parts, ret, walk, cur, frames, calls>>
  /\ UNCHANGED <<listed, joinvars, sortvars, snakevars>>

(* ------------------------- _ensure_remote_dir ------------------------- *)

\* The while loop: path and its ancestors, leaf first.  Each iteration's
\* `path = posixpath.dirname(path)` is bound to `up` before the next one.
RECURSIVE EnsureParts(_)
EnsureParts(path) ==
  IF path \in {<<>>, <<SLASH>>} THEN <<>>
  ELSE CHOOSE ps \in {<<path>> \o EnsureParts(up) : up \in {posixpath_dirname(path)}} : TRUE

\* Variant of EnsureOrder: the for loop without reversed().
EnsureOrderLeafFirst(ps) == ps

\* The order the for loop visits them in.
EnsureOrder(ps) == Reverse(ps)

\* Whether `while path not in ("", "/")` goes on for ever from `path`: it does
\* when the path reaches a string other than "" and "/" that
\* posixpath.dirname maps to itself ("//" is one).
RECURSIVE WhileLoops(_)
WhileLoops(path) ==
  IF path \in {<<>>, <<SLASH>>} THEN FALSE
  ELSE \E up \in {posixpath_dirname(path)} : up = path \/ WhileLoops(up)

\* The call _ensure_remote_dir(remote_dir) made by a caller that continues at k.
_ensure_remote_dir(remote_dir, k) ==
  IF remote_dir \notin {<<>>, <<".">>} /\ WhileLoops(remote_dir)
  THEN parts' = <<>> /\ ret' = k /\ pc' = "ensure_while"
  ELSE LET ps == IF remote_dir \in {<<>>, <<".">>} THEN <<>>
                 ELSE EnsureOrder(EnsureParts(remote_dir))
       IN /\ parts' = ps
          /\ ret' = k
          /\ pc' = IF ps = <<>> THEN k ELSE "ensure_stat"

\* One more iteration of the while loop once `path` is a string that
\* posixpath.dirname maps to itself: the string is appended to the list and
\* `path` stays what it is.  The list collected on the way is left out of the
\* state: the for loop that would read it is never reached.  The loop has no
\* other way out than list.append running out of memory.
EnsureWhile ==
  /\ pc = "ensure_while"
  /\ \/ UNCHANGED vars
     \/ /\ Raise("MemoryError")
        /\ UNCHANGED <<args, yielded, lfs, rfs, _ssh, _sftp, closes, parts, ret, walk,
                       cur, frames, calls>>
        /\ UNCHANGED <<listed, joinvars, sortvars, snakevars>>

\* After one directory of the for loop is done.
EnsureNext ==
  /\ parts' = Tail(parts)
  /\ pc' = IF Tail(parts) = <<>> THEN ret ELSE "ensure_stat"

\* Variant of EnsureFound: mkdir issued without regard to the stat.
EnsureFoundCreate == pc' = "ensure_mkdir" /\ UNCHANGED <<parts, result>>

\* Variant of EnsureFound: an entry that is not a directory is refused.
EnsureFoundDirOnly ==
  IF StatAnswer(rfs, Head(parts)) = "dir"
  THEN EnsureNext /\ UNCHANGED result
  ELSE Raise("Failed") /\ UNCHANGED parts

\* The try block left without an exception: on to the next directory.
EnsureFound == EnsureNext /\ UNCHANGED result

\* self.sftp.stat(directory)
EnsureStat ==
  /\ pc = "ensure_stat"
  /\ LET directory == Head(parts) IN
     \/ /\ StatAnswer(rfs, directory) # "notfound"
        /\ Log("stat", directory, <<>>, StatAnswer(rfs, directory))
        /\ EnsureFound
     \/ /\ StatAnswer(rfs, directory) = "notfound"
        /\ Log("stat", directory, <<>>, "notfound")
        /\ pc' = "ensure_mkdir"
        /\ UNCHANGED <<parts, result>>
     \/ /\ faults
        /\ Log("stat", directory, <<>>, "error")
        /\ Raise("Failed")
        /\ UNCHANGED parts
  /\ UNCHANGED <<args, yielded, lfs, rfs, _ssh, _sftp, closes, ret, walk, cur, frames>>
  /\ UNCHANGED <<listed, joinvars, sortvars, snakevars>>

\* except FileNotFoundError: self.sftp.mkdir(directory)
EnsureMkdir ==
  /\ pc = "ensure_mkdir"
  /\ LET directory == Head(parts) IN
     \/ /\ MkdirAllowed(rfs, directory)
        /\ Log("mkdir", directory, <<>>, "ok")
        /\ rfs' = WithDir(rfs, Resolve(directory))
        /\ EnsureNext
        /\ UNCHANGED result
     \/ /\ faults \/ ~MkdirAllowed(rfs, directory)
        /\ Log("mkdir", directory, <<>>, "error")
        /\ Raise("Failed")
        /\ UNCHANGED <<parts, rfs>>
  /\ UNCHANGED <<args, yielded, lfs, _ssh, _sftp, closes, ret, walk, cur, frames>>
  /\ UNCHANGED <<listed, joinvars, sortvars, snakevars>>

(* ------------------------------- upload ------------------------------- *)

\* Variant of LocalExists: the existence test left out.
LocalExistsUnchecked(fs, p) == TRUE

\* os.path.exists(local_path)
LocalExists(fs, p) == Exists(fs, p)

\* Variant of UploadRemoteDir: the target itself taken for its directory.
UploadRemoteDirSelf(remote) == remote

\* upload(), single file: remote_dir = posixpath.dirname(remote_path)
UploadRemoteDir(remote) == posixpath_dirname(remote)

\* upload(): the existence test and the dispatch on the kind of local_path.
upload ==
  /\ pc = "dispatch" /\ action = "upload"
  /\ IF ~LocalExists(lfs, local_path)
     THEN Raise("LocalPathNotFound") /\ UNCHANGED <<parts, ret, walk>>
     ELSE IF IsDir(lfs, local_path)
     THEN /\ walk' = <<local_path>>
          /\ pc' = "walk"
          /\ UNCHANGED <<parts, ret, result>>
     ELSE /\ _ensure_remote_dir(UploadRemoteDir(remote_path), "put_one")
          /\ UNCHANGED <<walk, result>>
  /\ UNCHANGED <<args, yielded, lfs, rfs, _ssh, _sftp, closes, cur, frames, calls>>
  /\ UNCHANGED <<listed, joinvars, sortvars, snakevars>>

\* self.sftp.put(local, remote): the file arrives, or the call raises; a
\* transfer that breaks off may leave a truncated file behind.
PutOutcome(local, remote, ok, failed) ==
  \/ \* os.stat(localpath) raises before anything is sent
     /\ ~IsFile(lfs, local)
     /\ UNCHANGED <<calls, rfs>>
     /\ failed
  \/ /\ IsFile(lfs, local)
     /\ PutAllowed(rfs, remote)
     /\ Log("put", remote, local, "ok")
     /\ rfs' = WithFile(rfs, Resolve(remote), lfs.files[local])
     /\ ok
  \/ /\ IsFile(lfs, local)
     /\ faults \/ ~PutAllowed(rfs, remote)
     /\ Log("put", remote, local, "error")
     /\ \/ rfs' = rfs
        \/ PutAllowed(rfs, remote) /\ rfs' = WithFile(rfs, Resolve(remote), Truncated)
     /\ failed

\* upload(), single file: self.sftp.put(local_path, remote_path)
UploadFilePut ==
  /\ pc = "put_one"
  /\ PutOutcome(local_path, remote_path,
                pc' = "exit" /\ result' = "Done",
                Raise("Failed"))
  /\ UNCHANGED <<args, yielded, lfs, _ssh, _sftp, closes, parts, ret, walk, cur, frames>>
  /\ UNCHANGED <<listed, joinvars, sortvars, snakevars>>

\* Variant of WalkPush: the walk does not descend into subdirectories.
WalkPushNone(root, dirs, rest) == rest

\* The directories os.walk visits after `root`, given the order scandir
\* listed root's subdirectories in.
WalkPush(root, dirs, rest) == [i \in 1..Len(dirs) |-> Append(root, dirs[i])] \o rest

\* Variant of RemoteRoot: the relative offset of the visited directory dropped.
RemoteRootFlat(remote_dir, root, local_dir) == _join_remote(<<remote_dir>>)

\* The remote directory a visited local directory maps to.
RemoteRoot(remote_dir, root, local_dir) ==
  _join_remote(<<remote_dir, rel_root(root, local_dir)>>)

\* _upload_directory: one iteration of `for root, dirs, files in os.walk`,
\* up to the call of _ensure_remote_dir; the loop's end returns from upload().
UploadWalk ==
  /\ pc = "walk"
  /\ IF walk = <<>>
     THEN /\ pc' = "exit" /\ result' = "Done"
          /\ UNCHANGED <<walk, cur, parts, ret, yielded>>
     ELSE LET root == Head(walk)
              sub == {e.name : e \in {c \in Children(lfs, root) : c.isdir}}
              fil == {e.name : e \in {c \in Children(lfs, root) : ~c.isdir}}
          IN \E dirs \in Orders(sub), files \in Orders(fil),
                remote_root \in {RemoteRoot(remote_path, root, local_path)} :
               /\ walk' = WalkPush(root, dirs, Tail(walk))
               /\ cur' = [remote_root |-> remote_root, root |-> root, files |-> files]
               /\ _ensure_remote_dir(remote_root, "put")
               /\ yielded' = Append(yielded, [root |-> root, files |-> files])
               /\ UNCHANGED result
  /\ UNCHANGED <<args, lfs, rfs, _ssh, _sftp, closes, frames, calls>>
  /\ UNCHANGED <<listed, joinvars, sortvars, snakevars>>

\* Variant of UploadPutFailed: the error swallowed, the loop goes on.
UploadPutSkipped == cur' = [cur EXCEPT !.files = Tail(@)] /\ UNCHANGED <<pc, result>>

\* What _upload_directory does when a put raises.
UploadPutFailed == Raise("Failed") /\ UNCHANGED cur

\* _upload_directory: one iteration of `for filename in files`.
UploadPut ==
  /\ pc = "put"
  /\ IF cur.files = <<>>
     THEN /\ pc' = "walk"
          /\ UNCHANGED <<cur, rfs, calls, result>>
     ELSE LET filename == Head(cur.files)
              local_file == Append(cur.root, filename)
              remote_file == _join_remote(<<cur.remote_root, filename>>)
          IN PutOutcome(local_file, remote_file,
                        /\ cur' = [cur EXCEPT !.files = Tail(@)]
                        /\ UNCHANGED <<pc, result>>,
                        UploadPutFailed)
  /\ UNCHANGED <<args, yielded, lfs, _ssh, _sftp, closes, parts, ret, walk, frames>>
  /\ UNCHANGED <<listed, joinvars, sortvars, snakevars>>

(* ------------------------------ download ------------------------------ *)

\* Variant of _is_remote_dir: `except Exception` in place of
\* `except FileNotFoundError`.
_is_remote_dir_any_error(answer) ==
  IF answer \in {"notfound", "error"} THEN "RemotePathNotFound" ELSE answer

\* What _is_remote_dir makes of the answer of self.sftp.stat(remote_path):
\* "dir" and "file" are its return values True and False.
_is_remote_dir(answer) ==
  IF answer = "notfound" THEN "RemotePathNotFound"
  ELSE IF answer = "error" THEN "Failed"
  ELSE answer

Frame(remote_dir, local_dir) ==
  [remote_dir |-> remote_dir, local_dir_path |-> local_dir, entries |-> <<>>]

\* Variant of DownloadBranch: every remote path handled as a directory.
DownloadBranchAlwaysDir(kind) ==
  frames' = <<Frame(remote_path, local_path)>> /\ pc' = "dl_mkdir"

\* download(): the branch taken for what _is_remote_dir returned.
DownloadBranch(kind) ==
  IF kind = "dir"
  THEN frames' = <<Frame(remote_path, local_path)>> /\ pc' = "dl_mkdir"
  ELSE frames' = frames /\ pc' = "dlf_mkdir"

\* download(): the call of _is_remote_dir and the dispatch on its result.
download ==
  /\ pc = "dispatch" /\ action = "download"
  /\ \E answer \in {StatAnswer(rfs, remote_path)} \cup (IF faults THEN {"error"} ELSE {}) :
       /\ Log("stat", remote_path, <<>>, answer)
       /\ IF _is_remote_dir(answer) \in {"dir", "file"}
          THEN DownloadBranch(_is_remote_dir(answer)) /\ UNCHANGED result
          ELSE Raise(_is_remote_dir(answer)) /\ UNCHANGED frames
  /\ UNCHANGED <<args, yielded, lfs, rfs, _ssh, _sftp, closes, parts, ret, walk, cur>>
  /\ UNCHANGED <<listed, joinvars, sortvars, snakevars>>

\* Variant of LocalMkdirOutcome: the mkdir call left out.
LocalMkdirLeftOut(dir, ok) == ok /\ UNCHANGED <<calls, lfs>>

\* Path.mkdir(parents=True, exist_ok=True) on the local side.
LocalMkdirOutcome(dir, ok) ==
  \/ /\ LocalMkdirAllowed(lfs, dir)
     /\ Log("lmkdir", <<>>, dir, "ok")
     /\ lfs' = LocalMkdirAll(lfs, dir)
     /\ ok
  \/ /\ faults \/ ~LocalMkdirAllowed(lfs, dir)
     /\ Log("lmkdir", <<>>, dir, "error")
     /\ lfs' = lfs
     /\ Raise("Failed")

\* self.sftp.get(remote, local): open(local, "wb"), then the transfer.
GetOutcome(remote, local, ok, failed) ==
  \/ /\ StatAnswer(rfs, remote) = "file" /\ LocalOpenAllowed(lfs, local)
     /\ Log("get", remote, local, "ok")
     /\ lfs' = WithFile(lfs, local, rfs.files[Resolve(remote)])
     /\ ok
  \/ /\ faults \/ StatAnswer(rfs, remote) # "file" \/ ~LocalOpenAllowed(lfs, local)
     /\ Log("get", remote, local, "error")
     /\ \/ lfs' = lfs
        \/ LocalOpenAllowed(lfs, local) /\ lfs' = WithFile(lfs, local, Truncated)
     /\ failed

\* download(), single file: local_parent.mkdir(parents=True, exist_ok=True)
DownloadFileMkdir ==
  /\ pc = "dlf_mkdir"
  /\ LocalMkdirOutcome(Parent(local_path), pc' = "dlf_get" /\ UNCHANGED result)
  /\ UNCHANGED <<args, yielded, rfs, _ssh, _sftp, closes, parts, ret, walk, cur, frames>>
  /\ UNCHANGED <<listed, joinvars, sortvars, snakevars>>

\* download(), single file: self.sftp.get(remote_path, local_path)
DownloadFileGet ==
  /\ pc = "dlf_get"
  /\ GetOutcome(remote_path, local_path, pc' = "exit" /\ result' = "Done", Raise("Failed"))
  /\ UNCHANGED <<args, yielded, rfs, _ssh, _sftp, closes, parts, ret, walk, cur, frames>>
  /\ UNCHANGED <<listed, joinvars, sortvars, snakevars>>

\* _download_directory: local_dir_path.mkdir(parents=True, exist_ok=True)
DownloadMkdir ==
  /\ pc = "dl_mkdir"
  /\ LocalMkdirOutcome(Head(frames).local_dir_path, pc' = "dl_list" /\ UNCHANGED result)
  /\ UNCHANGED <<args, yielded, rfs, _ssh, _sftp, closes, parts, ret, walk, cur, frames>>
  /\ UNCHANGED <<listed, joinvars, sortvars, snakevars>>

\* Variant of Iterate: the listing sorted before the loop, directories first.
IterateDirsFirst(entries) ==
  SelectSeq(entries, LAMBDA e : e.isdir) \o SelectSeq(entries, LAMBDA e : ~e.isdir)

\* `for entry in self.sftp.listdir_attr(remote_dir)`: the entries the loop
\* goes through, in its order.
Iterate(entries) == entries

\* _download_directory: self.sftp.listdir_attr(remote_dir)
DownloadList ==
  /\ pc = "dl_list"
  /\ LET remote_dir == Head(frames).remote_dir IN
     \/ /\ StatAnswer(rfs, remote_dir) = "dir"
        /\ \E entries \in Orders(Children(rfs, Resolve(remote_dir))) :
             /\ frames' = <<[Head(frames) EXCEPT !.entries = Iterate(entries)]>>
                              \o Tail(frames)
             /\ listed' = Append(listed, [remote_dir |-> remote_dir, entries |-> entries])
        /\ Log("listdir", remote_dir, <<>>, "ok")
        /\ pc' = "dl_entry" /\ UNCHANGED result
     \/ /\ faults \/ StatAnswer(rfs, remote_dir) # "dir"
        /\ Log("listdir", remote_dir, <<>>, "error")
        /\ Raise("Failed")
        /\ UNCHANGED <<frames, listed>>
  /\ UNCHANGED <<args, yielded, lfs, rfs, _ssh, _sftp, closes, parts, ret, walk, cur>>
  /\ UNCHANGED <<joinvars, sortvars, snakevars>>

\* _download_directory: one iteration of `for entry in ...` up to its first
\* call; the loop's end returns to the caller.
DownloadEntry ==
  /\ pc = "dl_entry"
  /\ LET f == Head(frames) IN
     IF f.entries = <<>>
     THEN /\ frames' = Tail(frames)
          /\ IF Tail(frames) = <<>>
             THEN pc' = "exit" /\ result' = "Done"
             ELSE pc' = "dl_entry" /\ UNCHANGED result
     ELSE LET entry == Head(f.entries)
              remote_child == _join_remote(<<f.remote_dir, entry.name>>)
              local_child == Append(f.local_dir_path, entry.name)
          IN IF entry.isdir
             THEN /\ frames' = <<Frame(remote_child, local_child),
                                 [f EXCEPT !.entries = Tail(@)]>> \o Tail(frames)
                  /\ pc' = "dl_mkdir" /\ UNCHANGED result
             ELSE /\ pc' = "dl_fmkdir" /\ UNCHANGED <<frames, result>>
  /\ UNCHANGED <<args, yielded, lfs, rfs, _ssh, _sftp, closes, parts, ret, walk, cur, calls>>
  /\ UNCHANGED <<listed, joinvars, sortvars, snakevars>>

\* _download_directory: local_child.parent.mkdir(parents=True, exist_ok=True)
DownloadChildMkdir ==
  /\ pc = "dl_fmkdir"
  /\ LocalMkdirOutcome(Head(frames).local_dir_path, pc' = "dl_get" /\ UNCHANGED result)
  /\ UNCHANGED <<args, yielded, rfs, _ssh, _sftp, closes, parts, ret, walk, cur, frames>>
  /\ UNCHANGED <<listed, joinvars, sortvars, snakevars>>

\* What _download_directory does when a get raises.
DownloadGetFailed == Raise("Failed") /\ UNCHANGED frames

\* _download_directory: self.sftp.get(remote_child, str(local_child))
DownloadGet ==
  /\ pc = "dl_get"
  /\ LET f == Head(frames)
         entry == Head(f.entries)
     IN GetOutcome(_join_remote(<<f.remote_dir, entry.name>>),
                   Append(f.local_dir_path, entry.name),
                   /\ frames' = <<[f EXCEPT !.entries = Tail(@)]>> \o Tail(frames)
                   /\ pc' = "dl_entry" /\ UNCHANGED result,
                   DownloadGetFailed)
  /\ UNCHANGED <<args, yielded, rfs, _ssh, _sftp, closes, parts, ret, walk, cur>>
  /\ UNCHANGED <<listed, joinvars, sortvars, snakevars>>

(* --------------------------- specification ---------------------------- *)

Next ==
  \/ connect
  \/ __exit__
  \/ upload
  \/ EnsureStat
  \/ EnsureMkdir
  \/ UploadWalk
  \/ UploadPut
  \/ UploadFilePut
  \/ download
  \/ DownloadFileMkdir
  \/ DownloadFileGet
  \/ DownloadMkdir
  \/ DownloadList
  \/ DownloadEntry
  \/ DownloadChildMkdir
  \/ DownloadGet

Spec == Init /\ [][Next]_vars

(* ------------------ runs on a session that does not fail ------------- *)

\* A remote path with two leading slashes.
DoubleSlashPaths == {<<"/", "/", "t">>}

\* One invocation of main() as in Init, on a session and a local disk that
\* fail only where the file systems make a call fail.
InitLive ==
  /\ NoJoin /\ NoSort /\ NoSnake
  /\ past = <<>>
  /\ faults = FALSE
  /\ \E lp \in LocalPaths, rp \in RemotePaths \cup DoubleSlashPaths :
    \/ \E l \in LocalSides(MaxNodes) \ {Bare({})}, r \in RemoteSides(MaxOther) :
         Start("upload", lp, rp, l, r)
    \/ \E l \in LocalSides(MaxOther), r \in RemoteSides(MaxNodes) \ {Bare({HomeDir})} :
         Start("download", lp, rp, l, r)

NextLive ==
  \/ Next
  \/ EnsureWhile

\* The interpreter goes on executing main() as long as a statement is left.
SpecLive == InitLive /\ [][NextLive]_vars /\ WF_vars(NextLive)

(* --------------------- upload followed by download -------------------- *)

\* What is kept of an invocation that ended.
Snapshot ==
  [action |-> action, local_path |-> local_path, remote_path |-> remote_path,
   result |-> result, lfs0 |-> lfs0, rfs0 |-> rfs0, lfs |-> lfs, rfs |-> rfs,
   calls |-> calls]

\* main() is run a second time, on the file systems the first run left:
\* download of the remote path the upload wrote, to some local path.
Reinvoke ==
  /\ pc = "end" /\ past = <<>> /\ action = "upload" /\ result = "Done"
  /\ past' = <<Snapshot>>
  /\ action' = "download"
  /\ local_path' \in LocalPaths
  /\ lfs0' = lfs /\ rfs0' = rfs
  /\ _ssh' = "None" /\ _sftp' = "None" /\ closes' = [sftp |-> 0, ssh |-> 0]
  /\ pc' = "connect" /\ result' = "running"
  /\ parts' = <<>> /\ ret' = "" /\ walk' = <<>> /\ cur' = NoCur /\ frames' = <<>>
  /\ calls' = <<>> /\ yielded' = <<>>
  /\ UNCHANGED <<remote_path, lfs, rfs, faults>>
  /\ listed' = <<>>
  /\ UNCHANGED <<joinvars, sortvars, snakevars>>

\* An upload of a directory tree; the primitives answer as the file systems
\* dictate.
InitRoundTrip ==
  /\ NoJoin /\ NoSort /\ NoSnake
  /\ past = <<>>
  /\ faults = FALSE
  /\ \E rp \in RemotePaths, l \in LocalSides(MaxNodes) \ {Bare({})},
        r \in RemoteSides(MaxOther) :
       Start("upload", <<nR>>, rp, l, r)

NextRoundTrip ==
  \/ connect
  \/ __exit__
  \/ upload
  \/ EnsureStat
  \/ EnsureMkdir
  \/ UploadWalk
  \/ UploadPut
  \/ Reinvoke
  \/ download
  \/ DownloadMkdir
  \/ DownloadList
  \/ DownloadEntry
  \/ DownloadChildMkdir
  \/ DownloadGet

SpecRoundTrip == InitRoundTrip /\ [][NextRoundTrip]_vars

(* ------------------- _ensure_remote_dir called twice ------------------ *)

EnsurePaths ==
  RemotePaths \cup {<<"/", "t", "/", "s", "/", "a">>, <<"/", "t", "/", "a", "/", "b">>,
                    <<"u", "/", "s">>, <<"/", "t", "/">>, <<"/">>, <<>>}

\* A connected client about to call _ensure_remote_dir(remote_path) twice in
\* a row; the primitives answer as the remote tree dictates.
InitEnsure ==
  /\ NoJoin /\ NoSort /\ NoSnake
  /\ past = <<>>
  /\ faults = FALSE
  /\ \E path \in EnsurePaths, r \in RemoteSides(MaxNodes) :
       /\ Start("ensure", <<>>, path, Bare({}), r)

EnsureFirstCall ==
  /\ pc = "connect"
  /\ _ssh' = "connected" /\ _sftp' = "open"
  /\ _ensure_remote_dir(remote_path, "again")
  /\ UNCHANGED <<args, yielded, lfs, rfs, closes, result, walk, cur, frames, calls>>
  /\ UNCHANGED <<listed, joinvars, sortvars, snakevars>>

EnsureSecondCall ==
  /\ pc = "again"
  /\ past' = <<Snapshot>>
  /\ calls' = <<>>
  /\ _ensure_remote_dir(remote_path, "returned")
  /\ UNCHANGED <<action, local_path, remote_path, lfs0, rfs0, faults, yielded, lfs, rfs,
                 _ssh, _sftp, closes, result, walk, cur, frames>>
  /\ listed' = <<>>
  /\ UNCHANGED <<joinvars, sortvars, snakevars>>

NextEnsure ==
  \/ EnsureFirstCall
  \/ EnsureStat
  \/ EnsureMkdir
  \/ EnsureSecondCall

SpecEnsure == InitEnsure /\ [][NextEnsure]_vars

(* ------------------------- _join_remote called ------------------------ *)

MaxParts == 3

\* The fragments a caller may pass: empty, None, plain, beginning or ending
\* with a slash, beginning or ending with a backslash, and "/" itself.
Fragments ==
  {<<>>, None, <<"a">>, <<"/", "b">>, <<"a", "/">>, <<BACKSLASH, "b">>,
   <<"a", BACKSLASH>>, <<SLASH>>}

RECURSIVE SeqsUpTo(_, _)
SeqsUpTo(S, n) ==
  IF n = 0 THEN {<<>>}
  ELSE LET shorter == SeqsUpTo(S, n - 1)
       IN shorter \cup {Append(q, x) : q \in shorter, x \in S}

\* A caller about to call _join_remote(*jparts).
InitJoin ==
  /\ NoSftp /\ NoSort /\ NoSnake
  /\ jparts \in SeqsUpTo(Fragments, MaxParts)
  /\ joined = <<>>

\* _join_remote(*jparts) returns.
JoinCall ==
  /\ joined = <<>>
  /\ joined' = <<_join_remote(jparts)>>
  /\ UNCHANGED <<jparts, sftpvars, sortvars, snakevars>>

NextJoin == JoinCall

SpecJoin == InitJoin /\ [][NextJoin]_vars

(* ------------------------ src/src/quicksort.py ------------------------ *)

\* The longest list sorted, and the largest element: elements are 1..MaxVal.
MaxLen == 4
MaxVal == 3

\* Python lists are indexed from 0: arr[i] is a[i + 1].
At(a, i) == a[i + 1]

\* arr[i], arr[j] = arr[j], arr[i]
Swap(a, i, j) == [a EXCEPT ![i + 1] = At(a, j), ![j + 1] = At(a, i)]

\* Variant of Below: `<` in place of `<=` in the comparison with the pivot.
BelowStrict(x, pivot) == x < pivot

\* `if arr[j] <= pivot`
Below(x, pivot) == x <= pivot

\* `for j in range(low, high)` of _partition, from j on; i as the loop left it.
RECURSIVE PartitionLoop(_, _, _, _, _)
PartitionLoop(a, i, j, high, pivot) ==
  IF j >= high THEN [arr |-> a, i |-> i]
  ELSE IF Below(At(a, j), pivot)
       THEN PartitionLoop(Swap(a, i + 1, j), i + 1, j + 1, high, pivot)
       ELSE PartitionLoop(a, i, j + 1, high, pivot)

\* _partition(arr, low, high): the list it leaves and the index it returns.
_partition(a, low, high) ==
  LET loop == PartitionLoop(a, low - 1, low, high, At(a, high))
  IN [arr |-> Swap(loop.arr, loop.i + 1, high), pivot_index |-> loop.i + 1]

\* One call of quicksort_inplace(arr, low, high) and the statement it is at.
SortFrame(low, high) == [low |-> low, high |-> high, pivot_index |-> low, at |-> "if"]

Lists == UNION {[1..n -> 1..MaxVal] : n \in 0..MaxLen}

\* quicksort_inplace(arr) has just been called: high is None and becomes
\* len(arr) - 1.
InitSort ==
  /\ NoSftp /\ NoJoin /\ NoSnake
  /\ arr \in Lists
  /\ arr0 = arr
  /\ stack = <<SortFrame(0, Len(arr) - 1)>>
  /\ partitions = <<>>

\* `if low < high` is false: the call returns.
SortSkip ==
  /\ stack # <<>> /\ Head(stack).at = "if"
  /\ ~(Head(stack).low < Head(stack).high)
  /\ stack' = Tail(stack)
  /\ UNCHANGED <<arr, arr0, partitions>>
  /\ UNCHANGED <<sftpvars, joinvars, snakevars>>

\* pivot_index = _partition(arr, low, high)
SortPartition ==
  /\ stack # <<>> /\ Head(stack).at = "if"
  /\ Head(stack).low < Head(stack).high
  /\ LET f == Head(stack)
         done == _partition(arr, f.low, f.high)
     IN /\ arr' = done.arr
        /\ stack' = <<[f EXCEPT !.pivot_index = done.pivot_index, !.at = "left"]>>
                      \o Tail(stack)
        /\ partitions' = Append(partitions,
             [low |-> f.low, high |-> f.high, before |-> arr, after |-> done.arr,
              pivot_index |-> done.pivot_index])
  /\ UNCHANGED arr0
  /\ UNCHANGED <<sftpvars, joinvars, snakevars>>

\* quicksort_inplace(arr, low, pivot_index - 1)
SortLeft ==
  /\ stack # <<>> /\ Head(stack).at = "left"
  /\ LET f == Head(stack)
     IN stack' = <<SortFrame(f.low, f.pivot_index - 1), [f EXCEPT !.at = "right"]>>
                   \o Tail(stack)
  /\ UNCHANGED <<arr, arr0, partitions>>
  /\ UNCHANGED <<sftpvars, joinvars, snakevars>>

\* quicksort_inplace(arr, pivot_index + 1, high)
SortRight ==
  /\ stack # <<>> /\ Head(stack).at = "right"
  /\ LET f == Head(stack)
     IN stack' = <<SortFrame(f.pivot_index + 1, f.high), [f EXCEPT !.at = "return"]>>
                   \o Tail(stack)
  /\ UNCHANGED <<arr, arr0, partitions>>
  /\ UNCHANGED <<sftpvars, joinvars, snakevars>>

\* The call returns after its second recursive call.
SortReturn ==
  /\ stack # <<>> /\ Head(stack).at = "return"
  /\ stack' = Tail(stack)
  /\ UNCHANGED <<arr, arr0, partitions>>
  /\ UNCHANGED <<sftpvars, joinvars, snakevars>>

NextSort ==
  \/ SortSkip
  \/ SortPartition
  \/ SortLeft
  \/ SortRight
  \/ SortReturn

\* The interpreter goes on executing as long as a call is in progress.
SpecSort == InitSort /\ [][NextSort]_vars /\ WF_vars(NextSort)

(* -------------------------- src/src/snake.py -------------------------- *)

\* The grid, 30 by 20 in the source, made small enough for the snake to fill.
GRID_WIDTH == 4
GRID_HEIGHT == 2

Point(x, y) == <<x, y>>
Cells == (0..(GRID_WIDTH - 1)) \X (0..(GRID_HEIGHT - 1))
Occupied(body) == {body[i] : i \in 1..Len(body)}

\* _spawn_food: the cells random.choice chooses from.
Choices(body) == Cells \ Occupied(body)

Keys == {"Up", "Down", "Left", "Right", "w", "s", "a", "d", "r", "R", "space", "q"}

\* event.keysym.lower()
Lower(keysym) == IF keysym = "R" THEN "r" ELSE keysym

mapping ==
  [keysym \in {"Up", "Down", "Left", "Right", "w", "s", "a", "d"} |->
     CASE keysym \in {"Up", "w"} -> Point(0, -1)
       [] keysym \in {"Down", "s"} -> Point(0, 1)
       [] keysym \in {"Left", "a"} -> Point(-1, 0)
       [] keysym \in {"Right", "d"} -> Point(1, 0)]

Handled(op, keysym) == last' = <<[op |-> op, key |-> keysym]>>

\* _tick past its first test, run on the snake `body` with next_direction
\* `nd`, the score `sc` and the food at `fd`.  When the snake has grown over
\* the last free cell random.choice raises IndexError out of _spawn_food:
\* food keeps its value and root.after is not reached.
_tick(body, nd, sc, fd) ==
  LET new_head == Point(body[1][1] + nd[1], body[1][2] + nd[2])
      hit_wall == \/ new_head[1] < 0 \/ new_head[1] >= GRID_WIDTH
                  \/ new_head[2] < 0 \/ new_head[2] >= GRID_HEIGHT
      hit_self == new_head \in Occupied(SubSeq(body, 1, Len(body) - 1))
      grown == <<new_head>> \o body
  IN /\ direction' = nd
     /\ IF hit_wall \/ hit_self
        THEN /\ game_over' = TRUE
             /\ snake' = body /\ score' = sc /\ food' = fd
             /\ scheduled' = FALSE
        ELSE IF new_head = fd
        THEN /\ game_over' = FALSE
             /\ snake' = grown
             /\ score' = sc + 1
             /\ IF Choices(grown) = {}
                THEN food' = fd /\ scheduled' = FALSE
                ELSE food' \in Choices(grown) /\ scheduled' = TRUE
        ELSE /\ game_over' = FALSE
             /\ snake' = SubSeq(grown, 1, Len(grown) - 1)
             /\ score' = sc /\ food' = fd
             /\ scheduled' = TRUE

\* restart(): the new game, and the call of _tick that ends it.
restart ==
  LET center == Point(GRID_WIDTH \div 2, GRID_HEIGHT \div 2)
      body == <<center, Point(center[1] - 1, center[2]), Point(center[1] - 2, center[2])>>
  IN /\ next_direction' = Point(1, 0)
     /\ \E f \in Choices(body) : _tick(body, Point(1, 0), 0, f)

\* Variant of Reverses: no candidate is refused.
ReversesNever(candidate, d) == FALSE

\* candidate.x == -self.direction.x and candidate.y == -self.direction.y
Reverses(candidate, d) == candidate[1] = -d[1] /\ candidate[2] = -d[2]

on_key_press(keysym) ==
  IF game_over /\ Lower(keysym) \in {"r", "space"}
  THEN restart /\ Handled("restart", keysym)
  ELSE /\ Handled("key", keysym)
       /\ UNCHANGED <<snake, direction, game_over, score, food, scheduled>>
       /\ IF keysym \notin DOMAIN mapping THEN UNCHANGED next_direction
          ELSE IF Reverses(mapping[keysym], direction) THEN UNCHANGED next_direction
          ELSE next_direction' = mapping[keysym]

\* No game yet: the window is about to be made.
InitSnake == NoSftp /\ NoJoin /\ NoSort /\ NoSnake

\* SnakeGame(root)
__init__ ==
  /\ snake = <<>>
  /\ restart
  /\ Handled("init", "")
  /\ UNCHANGED <<sftpvars, joinvars, sortvars>>

\* The main loop delivers a key press.
KeyPress ==
  /\ snake # <<>>
  /\ \E keysym \in Keys : on_key_press(keysym)
  /\ UNCHANGED <<sftpvars, joinvars, sortvars>>

\* The main loop runs the call of _tick that root.after holds.
Tick ==
  /\ snake # <<>> /\ scheduled
  /\ IF game_over
     THEN /\ scheduled' = FALSE
          /\ UNCHANGED <<snake, direction, game_over, score, food>>
     ELSE _tick(snake, next_direction, score, food)
  /\ UNCHANGED next_direction
  /\ Handled("tick", "")
  /\ UNCHANGED <<sftpvars, joinvars, sortvars>>

NextSnake ==
  \/ __init__
  \/ KeyPress
  \/ Tick

SpecSnake == InitSnake /\ [][NextSnake]_vars

(* ------------------------- notions of the claims ---------------------- *)

\* The directories that exist without being created: the remote root and the
\* directory relative paths start from.
RootNodes == {<<>>, HomeDir}

\* A remote directory counts as materialized before call i when it is a root,
\* or an earlier stat found it, or an earlier mkdir created it.
RemoteMaterializedBefore(node, i) ==
  \/ node \in RootNodes
  \/ \E j \in 1..(i - 1) :
       /\ calls[j].op \in {"stat", "mkdir"}
       /\ calls[j].res \in {"dir", "file", "ok"}
       /\ Resolve(calls[j].path) = node

LocalMaterializedBefore(dir, i) ==
  \E j \in 1..(i - 1) :
    calls[j].op = "lmkdir" /\ calls[j].res = "ok" /\ calls[j].lpath = dir

\* The sequences of S, shortest first.
RECURSIVE SeqOfSet(_)
SeqOfSet(S) ==
  IF S = {} THEN <<>>
  ELSE LET m == CHOOSE x \in S : \A y \in S : Len(x) <= Len(y)
       IN <<m>> \o SeqOfSet(S \ {m})

\* The path strings of p and of its ancestors below the root, root to leaf.
AncestorStrings(p) ==
  SeqOfSet({SubSeq(p, 1, i - 1) : i \in {k \in 2..Len(p) : p[k] = SLASH}} \cup {p})

\* remote_path followed by "/name" for every name of `root` below local_path.
MappedDir(root) ==
  remote_path \o Flatten([i \in 1..(Len(root) - Len(local_path)) |->
                             <<SLASH>> \o root[Len(local_path) + i]])

StatOf(p) == <<"stat", p, <<>>>>
PutOf(root, filename) ==
  <<"put", MappedDir(root) \o <<SLASH>> \o filename, Append(root, filename)>>

\* The block of one yielded (directory, files) pair: the stats of the mapped
\* directory's levels, then one put per file.
Block(y) ==
  [i \in 1..Len(AncestorStrings(MappedDir(y.root))) |->
      StatOf(AncestorStrings(MappedDir(y.root))[i])]
  \o [i \in 1..Len(y.files) |-> PutOf(y.root, y.files[i])]

ExpectedBlocks == Flatten([i \in 1..Len(yielded) |-> Block(yielded[i])])

\* The calls made, without the mkdirs and without the outcomes.
ObservedBlocks ==
  LET kept == SelectSeq(calls, LAMBDA c : c.op # "mkdir")
  IN [i \in 1..Len(kept) |-> <<kept[i].op, kept[i].path, kept[i].lpath>>]

SourceDirs == {d \in lfs0.dirs : IsPrefix(local_path, d)}

\* os.walk yielded every directory below local_path once, a directory before
\* the directories inside it, each with exactly its files.
YieldedTopDown ==
  /\ {yielded[i].root : i \in 1..Len(yielded)} = SourceDirs
  /\ Len(yielded) = Cardinality(SourceDirs)
  /\ \A i \in 1..Len(yielded) :
       /\ yielded[i].root # local_path =>
            \E j \in 1..(i - 1) : yielded[j].root = Parent(yielded[i].root)
       /\ {yielded[i].files[k] : k \in 1..Len(yielded[i].files)} =
            {c.name : c \in {e \in Children(lfs0, yielded[i].root) : ~e.isdir}}
       /\ Len(yielded[i].files) =
            Cardinality({e \in Children(lfs0, yielded[i].root) : ~e.isdir})

(* -------------------------------- claims ------------------------------ *)

\* C1: in every run of upload and of download, a put or a remote mkdir is
\* issued only for a path whose parent directory was materialized earlier in
\* the run (found by a stat or created by a mkdir, or a root), a get only
\* into a local directory an earlier local mkdir materialized, and a local
\* mkdir below the destination root only after its parent's.
C1_ParentBeforeChild ==
  \A i \in 1..Len(calls) :
    LET c == calls[i] IN
    /\ c.op \in {"put", "mkdir"} => RemoteMaterializedBefore(Parent(Resolve(c.path)), i)
    /\ c.op = "get" => LocalMaterializedBefore(Parent(c.lpath), i)
    /\ (c.op = "lmkdir" /\ IsPrefix(local_path, c.lpath) /\ c.lpath # local_path)
          => LocalMaterializedBefore(Parent(c.lpath), i)

\* An upload of a tree ended after it created a nested remote directory and
\* put a file into it.
C1_Witness ==
  /\ action = "upload" /\ result = "Done" /\ pc = "end"
  /\ \E i, j \in 1..Len(calls) :
       /\ i < j
       /\ calls[i].op = "mkdir" /\ calls[i].res = "ok"
       /\ Len(Resolve(calls[i].path)) >= 2
       /\ calls[j].op = "put" /\ calls[j].res = "ok"
       /\ Parent(Resolve(calls[j].path)) = Resolve(calls[i].path)

\* C2: an upload of a directory tree issues its remote calls as one block per
\* (directory, files) pair in the order os.walk yields the pairs: the stats
\* (and mkdirs) that materialize the mapped directory remote_path/offset, then
\* one put per file in listed order to mappedDir/filename; a finished upload
\* has issued the blocks of all directories of the tree, top-down.
C2_UploadBlocks ==
  (action = "upload" /\ IsDir(lfs0, local_path)) =>
    /\ IsPrefix(ObservedBlocks, ExpectedBlocks)
    /\ result = "Done" => (ObservedBlocks = ExpectedBlocks /\ YieldedTopDown)

\* The upload of r/a, r/s/b to /t/s ended: /t/s, a, /t/s/s, b.
C2_Witness ==
  /\ action = "upload" /\ result = "Done" /\ pc = "end"
  /\ local_path = <<nR>> /\ remote_path = <<"/", "t", "/", "s">>
  /\ SelectSeq(calls, LAMBDA c : c.op \in {"mkdir", "put"}) =
       << Call("mkdir", <<"/", "t">>, <<>>, "ok"),
          Call("mkdir", <<"/", "t", "/", "s">>, <<>>, "ok"),
          Call("put", <<"/", "t", "/", "s", "/", "a">>, <<nR, nA>>, "ok"),
          Call("mkdir", <<"/", "t", "/", "s", "/", "s">>, <<>>, "ok"),
          Call("put", <<"/", "t", "/", "s", "/", "s", "/", "b">>, <<nR, nS, nB>>, "ok") >>

\* C4: the session one invocation opened stays open while upload/download
\* runs and is closed exactly once when the invocation ends, whether it ends
\* normally, with a path not found, or with a failed stat, mkdir, list, get
\* or put; it is never closed twice.
C4_ClosedExactlyOnce ==
  /\ closes.sftp <= 1 /\ closes.ssh <= 1
  /\ pc \notin {"connect", "end"} =>
       (_sftp = "open" /\ _ssh = "connected" /\ closes = [sftp |-> 0, ssh |-> 0])
  /\ (pc = "end" /\ result # "ConnectFailed") =>
       (_sftp = "None" /\ _ssh = "None" /\ closes = [sftp |-> 1, ssh |-> 1])

\* An invocation ended by a failed mkdir, its session closed.
C4_Witness ==
  /\ pc = "end" /\ result = "Failed"
  /\ calls # <<>> /\ calls[Len(calls)].op = "mkdir" /\ calls[Len(calls)].res = "error"
  /\ closes = [sftp |-> 1, ssh |-> 1]

\* C5: a primitive that fails (stat with another error than not-found,
\* listdir, mkdir, get, put, local mkdir) is the last primitive the
\* invocation calls: the invocation is aborted right there, with nothing
\* retried and nothing skipped.
C5_FailFast ==
  \A i \in 1..Len(calls) :
    calls[i].res = "error" =>
      (i = Len(calls) /\ pc \in {"exit", "end"} /\ result = "Failed")

\* An upload ended by a failed put while a second file of the same directory
\* was still to be put.
C5_Witness ==
  /\ pc = "end" /\ result = "Failed" /\ action = "upload"
  /\ calls # <<>> /\ calls[Len(calls)].op = "put" /\ calls[Len(calls)].res = "error"
  /\ Len(cur.files) = 2

\* C6: upload of a local path that does not exist fails with
\* LocalPathNotFound without any remote call, the remote tree unchanged.
C6_MissingLocalPath ==
  (action = "upload" /\ ~Exists(lfs0, local_path)) =>
    /\ calls = <<>>
    /\ rfs = rfs0
    /\ pc \in {"exit", "end"} => result \in {"LocalPathNotFound", "ConnectFailed"}
    /\ pc = "exit" => result = "LocalPathNotFound"

\* An upload of a missing local path ended with LocalPathNotFound.
C6_Witness ==
  /\ action = "upload" /\ ~Exists(lfs0, local_path)
  /\ pc = "end" /\ result = "LocalPathNotFound"

\* C7: download's classification of remote_path (its first call, a stat)
\* takes the directory branch when the stat reports a directory, the file
\* branch when it reports a non-directory, ends the invocation with
\* RemotePathNotFound exactly when the stat signals not-found, and with the
\* stat's own failure for any other stat error.
C7_Classify ==
  (action = "download" /\ calls # <<>>) =>
    LET c == calls[1] IN
    /\ c.op = "stat" /\ c.path = remote_path
    /\ c.res = "dir" =>
         /\ result \in {"running", "Done", "Failed"}
         /\ Len(calls) = 1 => pc = "dl_mkdir"
         /\ Len(calls) >= 2 => (calls[2].op = "lmkdir" /\ calls[2].lpath = local_path)
    /\ c.res = "file" =>
         /\ result \in {"running", "Done", "Failed"}
         /\ Len(calls) = 1 => pc = "dlf_mkdir"
         /\ Len(calls) >= 2 => (calls[2].op = "lmkdir" /\ calls[2].lpath = Parent(local_path))
    /\ (c.res = "notfound") <=> (result = "RemotePathNotFound")
    /\ c.res = "error" => (result = "Failed" /\ Len(calls) = 1)

\* A download ended because the stat of remote_path failed with another
\* error than not-found.
C7_Witness ==
  /\ action = "download" /\ pc = "end" /\ result = "Failed"
  /\ Len(calls) = 1 /\ calls[1].res = "error"

\* C10: a download of a remote path classified as a file makes the local
\* parent directory of local_path and then issues one get of remote_path to
\* local_path: no listdir and no other get.
C10_DownloadOneFile ==
  (action = "download" /\ calls # <<>> /\ calls[1].res = "file") =>
    LET expected == << <<"stat", remote_path, <<>>>>,
                       <<"lmkdir", <<>>, Parent(local_path)>>,
                       <<"get", remote_path, local_path>> >>
    IN /\ IsPrefix(ObservedBlocks, expected)
       /\ result = "Done" => ObservedBlocks = expected

\* A download of a remote file ended after its one get, the data arrived.
C10_Witness ==
  /\ action = "download" /\ pc = "end" /\ result = "Done"
  /\ calls[1].res = "file"
  /\ Len(calls) = 3 /\ calls[3].op = "get" /\ calls[3].res = "ok"
  /\ lfs.files[local_path] = rfs.files[Resolve(remote_path)]

(* ------------- claims about upload followed by download -------------- *)

\* The tree below `at`: its directories and its files with their data, by
\* their paths relative to `at`.
Rel(at, p) == SubSeq(p, Len(at) + 1, Len(p))
TreeAt(fs, at) ==
  [dirs  |-> {Rel(at, d) : d \in {x \in fs.dirs : IsPrefix(at, x)}},
   files |-> {<<Rel(at, f), fs.files[f]>> : f \in {x \in DOMAIN fs.files : IsPrefix(at, x)}}]

\* Nothing is there, or an empty directory.
Fresh(fs, p) == ~Exists(fs, p) \/ (IsDir(fs, p) /\ Children(fs, p) = {})

\* The tree the download produced equals the tree the upload read.
SameTree == TreeAt(lfs, local_path) = TreeAt(past[1].lfs0, past[1].local_path)

EnsureStartTree == IF past = <<>> THEN rfs0 ELSE past[1].rfs

\* The nodes of path and of its ancestors, below the root (the home directory
\* for a relative path), root to leaf.
AncestorNodes(path) ==
  LET base == IF path # <<>> /\ path[1] = SLASH THEN <<>> ELSE HomeDir
  IN SeqOfSet({q \in Prefixes(Resolve(path)) : Len(q) > Len(base)})

RECURSIVE Dedup(_)
Dedup(s) ==
  IF Len(s) <= 1 THEN s
  ELSE IF s[1] = s[2] THEN Dedup(Tail(s))
  ELSE <<s[1]>> \o Dedup(Tail(s))

NodesOf(op) ==
  LET kept == SelectSeq(calls, LAMBDA c : c.op = op)
  IN [i \in 1..Len(kept) |-> Resolve(kept[i].path)]

\* C8: when a first ensure(path) succeeded, the second ensure(path) that
\* follows it issues no mkdir, finds every level, does not fail and leaves
\* the remote tree as the first left it.
C8_EnsureIdempotent ==
  past # <<>> =>
    /\ \A i \in 1..Len(calls) : calls[i].op = "stat" /\ calls[i].res \in {"dir", "file"}
    /\ result = "running"
    /\ rfs = past[1].rfs

\* The first call created directories and the second has returned.
C8_Witness ==
  /\ past # <<>> /\ pc = "returned"
  /\ \E i \in 1..Len(past[1].calls) : past[1].calls[i].op = "mkdir"
  /\ Len(calls) >= 2

\* C9: ensure(path) stats path and its ancestors below the root in
\* root-to-leaf order, issues a mkdir for a level exactly when the stat of
\* that level signalled not-found, right after that stat, and so creates the
\* missing levels one by one from the root down.
C9_EnsureOrder ==
  action = "ensure" =>
    /\ \A i \in 1..Len(calls) : calls[i].op \in {"stat", "mkdir"}
    /\ IsPrefix(Dedup(NodesOf("stat")), AncestorNodes(remote_path))
    /\ \A i \in 1..Len(calls) :
         /\ calls[i].op = "mkdir" =>
              (i > 1 /\ calls[i - 1] = Call("stat", calls[i].path, <<>>, "notfound"))
         /\ (calls[i].op = "stat" /\ calls[i].res = "notfound" /\ i < Len(calls)) =>
              (calls[i + 1].op = "mkdir" /\ calls[i + 1].path = calls[i].path)
    /\ (pc \in {"again", "returned"}) =>
         /\ Dedup(NodesOf("stat")) = AncestorNodes(remote_path)
         /\ NodesOf("mkdir") =
              SelectSeq(AncestorNodes(remote_path), LAMBDA q : ~Exists(EnsureStartTree, q))

\* ensure("/t/s/a") on a remote without /t returned after the mkdirs of /t,
\* /t/s and /t/s/a, in that order.
C9_Witness ==
  /\ action = "ensure" /\ pc = "again"
  /\ remote_path = <<"/", "t", "/", "s", "/", "a">>
  /\ SelectSeq(calls, LAMBDA c : c.op = "mkdir") =
       << Call("mkdir", <<"/", "t">>, <<>>, "ok"),
          Call("mkdir", <<"/", "t", "/", "s">>, <<>>, "ok"),
          Call("mkdir", <<"/", "t", "/", "s", "/", "a">>, <<>>, "ok") >>

(* ------------------ claims about what a transfer leaves --------------- *)

\* The directories of the remote source tree of a download, as nodes.
RemoteSourceDirs == {d \in rfs0.dirs : IsPrefix(Resolve(remote_path), d)}

\* The local path the remote node d below remote_path maps to.
MappedLocal(d) == local_path \o Rel(Resolve(remote_path), d)

UploadsTree == action = "upload" /\ IsDir(lfs0, local_path)
DownloadsTree == action = "download" /\ StatAnswer(rfs0, remote_path) = "dir"

\* C11: when an upload or a download of a tree has reached Done, every
\* directory of the source tree, the empty ones included, exists as a
\* directory on the destination side at its mapped path.
C11_EveryDirectoryExists ==
  result = "Done" =>
    /\ UploadsTree => \A d \in SourceDirs : IsDir(rfs, Resolve(MappedDir(d)))
    /\ DownloadsTree => \A d \in RemoteSourceDirs : IsDir(lfs, MappedLocal(d))

(* ------------------ claims about the order of a download -------------- *)

Listed(D) == \E i \in 1..Len(listed) : listed[i].remote_dir = D
ListingOf(D) == listed[CHOOSE i \in 1..Len(listed) : listed[i].remote_dir = D].entries

\* The calls the download of remote directory D to local directory L is
\* expected to make when every directory's entries are worked off one after
\* the other in the order its listing returned them: the local mkdir and the
\* listdir of D, then per entry either the local mkdir and the get of a file
\* or the whole download of a subdirectory.  `open` says that the expansion
\* stops at a directory that has not been listed so far.
RECURSIVE ExpandDir(_, _), ExpandEntries(_, _, _)
ExpandDir(D, L) ==
  LET own == << <<"lmkdir", <<>>, L>>, <<"listdir", D, <<>>>> >>
  IN IF Listed(D)
     THEN LET below == ExpandEntries(D, L, ListingOf(D))
          IN [calls |-> own \o below.calls, open |-> below.open]
     ELSE [calls |-> own, open |-> TRUE]
ExpandEntries(D, L, es) ==
  IF es = <<>> THEN [calls |-> <<>>, open |-> FALSE]
  ELSE LET child == D \o <<SLASH>> \o Head(es).name
           first == IF Head(es).isdir
                    THEN ExpandDir(child, Append(L, Head(es).name))
                    ELSE [calls |-> << <<"lmkdir", <<>>, L>>,
                                       <<"get", child, Append(L, Head(es).name)>> >>,
                          open |-> FALSE]
           rest == ExpandEntries(D, L, Tail(es))
       IN IF first.open THEN first
          ELSE [calls |-> first.calls \o rest.calls, open |-> rest.open]

ExpectedDownload ==
  LET tree == ExpandDir(remote_path, local_path)
  IN [calls |-> << <<"stat", remote_path, <<>>>> >> \o tree.calls, open |-> tree.open]

\* C12: the download of a directory tree works off the entries of every
\* remote directory in exactly the order listdir returned them, the whole
\* work of an entry (the get of a file, the complete download of a
\* subdirectory) before any work of the next entry.
C12_ListingOrder ==
  DownloadsTree =>
    /\ IsPrefix(ObservedBlocks, ExpectedDownload.calls)
    /\ result = "Done" =>
         (ObservedBlocks = ExpectedDownload.calls /\ ~ExpectedDownload.open)

\* A download ended whose first listing returned a subdirectory before a
\* file: the subdirectory was listed before the file was fetched.
C12_Witness ==
  /\ DownloadsTree /\ result = "Done" /\ pc = "end"
  /\ Len(listed) >= 2 /\ Len(listed[1].entries) = 2
  /\ listed[1].entries[1].isdir /\ ~listed[1].entries[2].isdir
  /\ \E i, j \in 1..Len(calls) :
       /\ i < j
       /\ calls[i].op = "listdir" /\ calls[i].path = listed[2].remote_dir
       /\ calls[j].op = "get" /\ Parent(calls[j].lpath) = local_path

(* -------------------- claims about the end of a run ------------------- *)

\* The files of the source tree: local paths for an upload, remote nodes for
\* a download.
SourceFiles == {f \in DOMAIN lfs0.files : IsPrefix(local_path, f)}
RemoteSourceFiles == {f \in DOMAIN rfs0.files : IsPrefix(Resolve(remote_path), f)}

Puts == SelectSeq(calls, LAMBDA c : c.op = "put")
Gets == SelectSeq(calls, LAMBDA c : c.op = "get")

\* Every file of the source tree was transferred by exactly one call, to its
\* mapped path, and no other transfer was made; every directory of the source
\* tree was materialized (found by a stat or created, locally created).
UploadedExactlyOnce ==
  /\ Len(Puts) = Cardinality(SourceFiles)
  /\ \A f \in SourceFiles :
       \E i \in 1..Len(Puts) :
         /\ Puts[i].lpath = f /\ Puts[i].res = "ok"
         /\ Puts[i].path = MappedDir(Parent(f)) \o <<SLASH>> \o f[Len(f)]
         /\ \A j \in 1..Len(Puts) : Puts[j].lpath = f => j = i
  /\ \A d \in SourceDirs :
       RemoteMaterializedBefore(Resolve(MappedDir(d)), Len(calls) + 1)

DownloadedExactlyOnce ==
  /\ Len(Gets) = Cardinality(RemoteSourceFiles)
  /\ \A f \in RemoteSourceFiles :
       \E i \in 1..Len(Gets) :
         /\ Resolve(Gets[i].path) = f /\ Gets[i].res = "ok"
         /\ Gets[i].lpath = MappedLocal(f)
         /\ \A j \in 1..Len(Gets) : Resolve(Gets[j].path) = f => j = i
  /\ \A d \in RemoteSourceDirs :
       LocalMaterializedBefore(MappedLocal(d), Len(calls) + 1)

TransferredExactlyOnce ==
  /\ UploadsTree => UploadedExactlyOnce
  /\ (action = "upload" /\ IsFile(lfs0, local_path)) =>
       (Len(Puts) = 1 /\ Puts[1].lpath = local_path /\ Puts[1].path = remote_path
        /\ Puts[1].res = "ok")
  /\ DownloadsTree => DownloadedExactlyOnce
  /\ (action = "download" /\ StatAnswer(rfs0, remote_path) = "file") =>
       (Len(Gets) = 1 /\ Gets[1].path = remote_path /\ Gets[1].lpath = local_path
        /\ Gets[1].res = "ok")

\* The run had no source tree to work on, or a primitive failed.
NoSourceOrFailure ==
  \/ result \in {"LocalPathNotFound", "RemotePathNotFound"}
  \/ \E i \in 1..Len(calls) : calls[i].res = "error"

\* C13: an upload or a download of a finite source tree ends, in Done unless
\* a primitive failed on the way, and Done is reached only when every file of
\* the source tree has been transferred exactly once to its mapped path and
\* every directory of it has been materialized.
C13_TerminatesInDone ==
  /\ <>(pc = "end")
  /\ [](pc = "end" => (result = "Done" \/ NoSourceOrFailure))
  /\ [](result = "Done" => TransferredExactlyOnce)

(* ----------------------- claims about quicksort ----------------------- *)

IsSorted(a) == \A i \in 1..(Len(a) - 1) : a[i] <= a[i + 1]

\* a and b hold the same elements, each as often.
SameElements(a, b) ==
  /\ Len(a) = Len(b)
  /\ \A v \in 1..MaxVal :
       Cardinality({i \in 1..Len(a) : a[i] = v}) = Cardinality({i \in 1..Len(b) : b[i] = v})

\* What the claim says of one call of _partition.
PartitionedAsClaimed(c) ==
  /\ c.pivot_index \in c.low..c.high
  /\ At(c.after, c.pivot_index) = At(c.before, c.high)
  /\ \A k \in c.low..(c.pivot_index - 1) : At(c.after, k) <= At(c.after, c.pivot_index)
  /\ \A k \in (c.pivot_index + 1)..c.high : At(c.after, c.pivot_index) < At(c.after, k)
  /\ \A k \in 0..(Len(c.before) - 1) : (k < c.low \/ k > c.high) => At(c.after, k) = At(c.before, k)
  /\ SameElements(c.after, c.before)

\* C14: quicksort_inplace(arr) returns for every list, and then arr is the
\* ascending permutation of what it held; every call _partition(arr, low,
\* high) returns the index p where it put the pivot arr[high], with
\* arr[low..p-1] <= arr[p] < arr[p+1..high] and the elements outside low..high
\* left as they were, and the pivot stays at p to the end.
C14_QuicksortInplace ==
  /\ <>(stack = <<>>)
  /\ [](stack = <<>> => (IsSorted(arr) /\ SameElements(arr, arr0)))
  /\ [](\A n \in 1..Len(partitions) :
          /\ PartitionedAsClaimed(partitions[n])
          /\ At(arr, partitions[n].pivot_index) =
               At(partitions[n].after, partitions[n].pivot_index))

\* A list of the greatest length with a duplicate, not sorted at the start,
\* has been sorted by several calls of _partition.
C14_Witness ==
  /\ stack = <<>> /\ Len(arr0) >= MaxLen
  /\ ~IsSorted(arr0) /\ IsSorted(arr)
  /\ \E i, j \in 1..Len(arr0) : i # j /\ arr0[i] = arr0[j]
  /\ Len(partitions) >= 2

(* ------------------- claims about pre-order traversal ----------------- *)

DirectFiles(fs, D) == {Append(D, c.name) : c \in {e \in Children(fs, D) : ~e.isdir}}

\* Call c of an upload works on a subdirectory of the local directory D: it
\* puts a file from below a subdirectory of D, or stats or creates a remote
\* directory below the one D maps to.
BelowUp(D, c) ==
  \/ c.op = "put" /\ IsPrefix(D, c.lpath) /\ Len(c.lpath) > Len(D) + 1
  \/ /\ c.op \in {"stat", "mkdir"}
     /\ IsPrefix(Resolve(MappedDir(D)), Resolve(c.path))
     /\ Len(Resolve(c.path)) > Len(Resolve(MappedDir(D)))

\* Call c of a download works on the remote directory D or below it.
InDown(D, c) ==
  \/ c.op = "listdir" /\ IsPrefix(D, Resolve(c.path))
  \/ c.op = "get" /\ IsPrefix(D, Resolve(c.path))
  \/ c.op = "lmkdir" /\ IsPrefix(MappedLocal(D), c.lpath)

\* Call c of a download works on a subdirectory of the remote directory D.
BelowDown(D, c) ==
  \/ c.op = "listdir" /\ IsPrefix(D, Resolve(c.path)) /\ Len(Resolve(c.path)) > Len(D)
  \/ c.op = "get" /\ IsPrefix(D, Resolve(c.path)) /\ Len(Resolve(c.path)) > Len(D) + 1
  \/ c.op = "lmkdir" /\ IsPrefix(MappedLocal(D), c.lpath) /\ Len(c.lpath) > Len(MappedLocal(D))

PutBefore(f, j) == \E i \in 1..(j - 1) : calls[i].op = "put" /\ calls[i].lpath = f
GotBefore(f, j) == \E i \in 1..(j - 1) : calls[i].op = "get" /\ Resolve(calls[i].path) = f

\* Upload: a directory is materialized and its own files are all put before
\* anything is done for one of its subdirectories.
UploadPreOrder ==
  UploadsTree =>
    \A D \in SourceDirs : \A j \in 1..Len(calls) :
      BelowUp(D, calls[j]) =>
        /\ RemoteMaterializedBefore(Resolve(MappedDir(D)), j)
        /\ \A f \in DirectFiles(lfs0, D) : PutBefore(f, j)

\* Download, as the same statement.
DownloadPreOrder ==
  DownloadsTree =>
    \A D \in RemoteSourceDirs : \A j \in 1..Len(calls) :
      BelowDown(D, calls[j]) =>
        /\ LocalMaterializedBefore(MappedLocal(D), j)
        /\ \A f \in DirectFiles(rfs0, D) : GotBefore(f, j)

\* Download, as the code does it: the local directory of D is made before
\* anything else is done for D, and once the walk has left D it has fetched
\* all of D's own files and does not come back to D.
DownloadFilesBeforeReturn ==
  DownloadsTree =>
    \A D \in RemoteSourceDirs : \A j \in 1..Len(calls) :
      /\ InDown(D, calls[j]) =>
           \/ LocalMaterializedBefore(MappedLocal(D), j)
           \/ calls[j].op = "lmkdir" /\ calls[j].lpath = MappedLocal(D)
      /\ (~InDown(D, calls[j]) /\ \E i \in 1..(j - 1) : InDown(D, calls[i])) =>
           /\ \A f \in DirectFiles(rfs0, D) : GotBefore(f, j)
           /\ \A k \in (j + 1)..Len(calls) : ~InDown(D, calls[k])

\* C15 as stated: in an upload and in a download alike, every directory is
\* materialized and all of its own files are transferred before the walk
\* enters any of its subdirectories, in whatever order entries are listed.
C15_PreOrderBothWays == UploadPreOrder /\ DownloadPreOrder

\* C15, amended: the upload walk is pre-order as stated; the download walk
\* makes the local directory of D first and then works off D's entries in the
\* order listed, files and subdirectories interleaved, so that all of D's own
\* files are fetched before the walk returns past D, not before it enters a
\* subdirectory of D.
C15_PreOrderUploadOnly == UploadPreOrder /\ DownloadFilesBeforeReturn

\* A download ended that fetched a file of a subdirectory before a file of
\* the directory above it.
C15_Witness ==
  /\ DownloadsTree /\ result = "Done" /\ pc = "end"
  /\ \E i, j \in 1..Len(calls) :
       /\ i < j
       /\ calls[i].op = "get" /\ calls[j].op = "get"
       /\ Parent(Parent(calls[i].lpath)) = Parent(calls[j].lpath)
       /\ Parent(calls[j].lpath) = local_path

(* --------------- claims about a file where a directory goes ----------- *)

\* The place of the string p among the levels _ensure_remote_dir(path) visits.
LevelOf(path, p) ==
  CHOOSE k \in 1..Len(AncestorStrings(path)) : AncestorStrings(path)[k] = p

\* C16: _ensure_remote_dir takes a stat that succeeds on a regular file for a
\* directory that exists: it issues no mkdir for that level, raises nothing
\* for it and goes on with the stat of the next deeper level, or returns when
\* the level was the last one.
C16_FileTakenForDirectory ==
  action = "ensure" =>
    \A i \in 1..Len(calls) :
      (calls[i].op = "stat" /\ calls[i].res = "file") =>
        LET levels == AncestorStrings(remote_path)
            k == LevelOf(remote_path, calls[i].path)
        IN /\ \A j \in 1..Len(calls) :
                calls[j].op = "mkdir" => calls[j].path # calls[i].path
           /\ IF i < Len(calls)
              THEN /\ k < Len(levels)
                   /\ calls[i + 1].op = "stat"
                   /\ calls[i + 1].path = levels[k + 1]
              ELSE /\ result # "Failed"
                   /\ IF k < Len(levels)
                      THEN pc = "ensure_stat" /\ Head(parts) = levels[k + 1]
                      ELSE pc \in {"again", "returned"}

\* _ensure_remote_dir("/t/a/b") where /t/a is a regular file: the stat of /t/a
\* answered "file" and the stat of /t/a/b followed it.
C16_Witness ==
  /\ action = "ensure"
  /\ remote_path = <<"/", "t", "/", "a", "/", "b">>
  /\ \E i \in 1..(Len(calls) - 1) :
       /\ calls[i] = Call("stat", <<"/", "t", "/", "a">>, <<>>, "file")
       /\ calls[i + 1].op = "stat"
       /\ calls[i + 1].path = remote_path

(* ------------------- claims about the upload of a file --------------- *)

UploadsFile == action = "upload" /\ Exists(lfs0, local_path) /\ ~IsDir(lfs0, local_path)

\* The levels of the directory part of remote_path, root to leaf: none when
\* the path has no directory part or its parent is the root.
ParentLevels == LET a == AncestorStrings(remote_path) IN SubSeq(a, 1, Len(a) - 1)

StatsAndMkdirs == SelectSeq(calls, LAMBDA c : c.op \in {"stat", "mkdir"})
PathsOf(op) ==
  LET kept == SelectSeq(calls, LAMBDA c : c.op = op)
  IN [i \in 1..Len(kept) |-> kept[i].path]

\* C17: upload of a single file stats the levels of the remote parent
\* directory root to leaf, makes the missing ones, and then puts the one file
\* to remote_path: one put, issued last, no listing; without a directory part
\* or below the root, the put is the only call.
C17_UploadOneFile ==
  UploadsFile =>
    /\ \A i \in 1..Len(calls) : calls[i].op \in {"stat", "mkdir", "put"}
    /\ IsPrefix(PathsOf("stat"), ParentLevels)
    /\ \A i \in 1..Len(calls) :
         calls[i].op = "mkdir" =>
           (i > 1 /\ calls[i - 1] = Call("stat", calls[i].path, <<>>, "notfound"))
    /\ \A i \in 1..Len(calls) :
         calls[i].op = "put" =>
           /\ i = Len(calls)
           /\ calls[i].path = remote_path /\ calls[i].lpath = local_path
           /\ PathsOf("stat") = ParentLevels
           /\ \A k \in 1..Len(ParentLevels) :
                ~Exists(rfs0, Resolve(ParentLevels[k])) =>
                  \E j \in 1..(i - 1) :
                    calls[j] = Call("mkdir", ParentLevels[k], <<>>, "ok")
    /\ result = "Done" => (calls # <<>> /\ calls[Len(calls)].op = "put")
    /\ ParentLevels = <<>> => StatsAndMkdirs = <<>>

\* The file r/a was put to /t/s/a after /t and /t/s, both missing, were made
\* in that order.
C17_Witness ==
  /\ UploadsFile /\ result = "Done"
  /\ remote_path = <<"/", "t", "/", "s", "/", "a">>
  /\ PathsOf("mkdir") = <<<<"/", "t">>, <<"/", "t", "/", "s">>>>
  /\ Len(calls) = 5

(* ----------------------- claims about _join_remote -------------------- *)

\* The parts that are neither empty nor absent, in order.
Given == SelectSeq(jparts, LAMBDA part : part # <<>> /\ part # None)

Normalized(s) == [i \in 1..Len(s) |-> IF s[i] = BACKSLASH THEN SLASH ELSE s[i]]

\* Whether the strings of ps occur in r one after the other, without overlap.
RECURSIVE AppearInOrder(_, _)
AppearInOrder(ps, r) ==
  \/ ps = <<>>
  \/ \E i \in 1..(Len(r) - Len(Head(ps)) + 1) :
       /\ SubSeq(r, i, i + Len(Head(ps)) - 1) = Head(ps)
       /\ AppearInOrder(Tail(ps), SubSeq(r, i + Len(Head(ps)), Len(r)))

\* The given parts from the last one that begins with a slash onwards: all
\* of them when none does.
Kept ==
  LET absolute == {i \in 1..Len(Given) : Given[i][1] = SLASH}
      from == IF absolute = {} THEN 1
              ELSE CHOOSE i \in absolute : \A j \in absolute : j <= i
  IN SubSeq(Given, from, Len(Given))

\* Each kept part but the last followed by one slash unless it ends with one.
Glued ==
  Flatten([i \in 1..Len(Kept) |->
             IF i < Len(Kept) /\ Kept[i][Len(Kept[i])] # SLASH
             THEN Kept[i] \o <<SLASH>>
             ELSE Kept[i]])

\* C18 as stated: _join_remote returns "" when every part is empty or absent
\* and otherwise a string without backslash in which every non-empty part
\* appears, in order, also when a later part begins with a slash or an
\* earlier part ends with one.
C18_EveryPartAppears ==
  joined # <<>> =>
    /\ Given = <<>> => joined[1] = <<>>
    /\ \A i \in 1..Len(joined[1]) : joined[1][i] # BACKSLASH
    /\ AppearInOrder([i \in 1..Len(Given) |-> Normalized(Given[i])], joined[1])

\* C18, amended: _join_remote returns "" when every part is empty or absent
\* and otherwise the non-empty parts from the last one that begins with a
\* slash onwards, each but the last followed by one slash unless it ends
\* with one, every backslash then replaced by a slash; the non-empty parts
\* before a part that begins with a slash are not in the result.
C18_JoinRemote ==
  joined # <<>> =>
    /\ Given = <<>> => joined[1] = <<>>
    /\ joined[1] = Normalized(Glued)
    /\ AppearInOrder([i \in 1..Len(Kept) |-> Normalized(Kept[i])], joined[1])

\* _join_remote("a", "/b") returned "/b".
C18_Witness ==
  /\ jparts = <<<<"a">>, <<"/", "b">>>>
  /\ joined = <<<<"/", "b">>>>

(* ------------------------- claims about the snake --------------------- *)

Opposite(d) == Point(-d[1], -d[2])

\* The step was made by the handler op.
Ran(op) == last' # <<>> /\ last'[1].op = op

\* The step is a key press for the opposite of the current direction.
OppositeKeyPressed ==
  /\ Ran("key")
  /\ last'[1].key \in DOMAIN mapping
  /\ mapping[last'[1].key] = Opposite(direction)

\* C19 as stated: no call of _tick, the one restart() makes included, applies
\* the opposite of the direction the call before it applied, and a key press
\* for the opposite of the current direction leaves next_direction unchanged.
C19_NeverOpposite ==
  [][/\ (Ran("tick") \/ Ran("restart")) => direction' # Opposite(direction)
     /\ OppositeKeyPressed => next_direction' = next_direction]_vars

\* C19, amended: within one game no call of _tick applies the opposite of
\* the direction the call before it applied, and a key press for the
\* opposite of the current direction leaves next_direction unchanged; the
\* call of _tick that restart() makes applies Right, whatever the last call
\* of the game before applied.
C19_NeverOppositeWithinGame ==
  [][/\ Ran("tick") => direction' # Opposite(direction)
     /\ Ran("restart") => direction' = Point(1, 0)
     /\ OppositeKeyPressed => next_direction' = next_direction]_vars

\* Between two ticks Up was pressed and then Left, the opposite of the
\* direction the snake moves in: next_direction is still Up.
C19_Witness ==
  /\ last = <<[op |-> "key", key |-> "Left"]>>
  /\ direction = Point(1, 0)
  /\ next_direction = Point(0, -1)
  /\ ~game_over

SnakeCellsDistinct == \A i, j \in 1..Len(snake) : i # j => snake[i] # snake[j]
SnakeInsideGrid == Occupied(snake) \subseteq Cells
FoodInGridOffSnake == food \in Cells /\ food \notin Occupied(snake)

\* Whether the next tick moves the head off the grid or onto the body.
WouldHit ==
  LET new_head == Point(snake[1][1] + next_direction[1], snake[1][2] + next_direction[2])
  IN \/ new_head \notin Cells
     \/ \E i \in 1..(Len(snake) - 1) : snake[i] = new_head

\* C20: the cells of the snake are pairwise distinct and inside the grid, the
\* food is inside the grid and on no cell of the snake; a tick that would
\* leave the grid or run into the body, the tail apart, sets game_over and
\* changes neither snake, score nor food; once game_over is set no tick
\* changes the state.
C20_SnakeInvariants ==
  /\ [](snake # <<>> => (SnakeCellsDistinct /\ SnakeInsideGrid /\ FoodInGridOffSnake))
  /\ [][/\ (Ran("tick") /\ ~game_over /\ WouldHit) =>
             (game_over' /\ snake' = snake /\ score' = score /\ food' = food)
        /\ (Ran("tick") /\ game_over) =>
             UNCHANGED <<snake, direction, next_direction, game_over, score, food>>]_vars

====
